---- MODULE Spec2Model ----
(***************************************************************************)
(* A model of the Animator of src/gifler.js: the playback engine that      *)
(* draws the frames of a decoded GIF into a canvas, driven by setTimeout   *)
(* and requestAnimationFrame callbacks of a single-threaded host.          *)
(*                                                                         *)
(* Times are milliseconds.  Frame delays are hundredths of a second, as    *)
(* in the GIF format; the engine multiplies them by 10.                    *)
(***************************************************************************)
EXTENDS Integers, Sequences, FiniteSets, Bags, TLC

VARIABLES
  frames,             \* this._frames: the decoded frames (never reassigned)
  loopCount,          \* this._loopCount
  width,              \* this.width: the width of the GIF, and of the canvas
  height,             \* this.height
  loops,              \* this._loops
  frameIndex,         \* this._frameIndex (0-based, as in the source)
  running,            \* this._running
  lastTime,           \* this._lastTime
  delayCompensation,  \* this._delayCompensation
  disposeFrame,       \* this.disposeFrame: the pending restore action
  surface,            \* the pixels of the canvas behind this.ctx
  buffers,            \* the frames (1-based) whose frame.buffer is set
  now,                \* the host clock, new Date().valueOf()
  timeouts,           \* host: pending setTimeout(() => this._nextFrame(), d)
  animationFrames,    \* host: pending requestAnimationFrame(_nextFrameRender)
  hung,               \* the while loop of _enqueueNextFrame never returns
  drawCount,          \* history: invocations of onDrawFrame
  buildCount,         \* history: buffers built by createBufferCanvas
  skipCount,          \* history: frames advanced past without drawing
  calls,              \* history: how many start/stop/reset calls were made
  resetMark,          \* history: reset() while running, no render-tick since
  lastDraw,           \* history: index and time of the latest draw
  failures,           \* history: render-ticks in which onDrawFrame threw
  timeline            \* history: the time of the latest start() plus the
                      \* delays of the frames advanced to since

vars == << frames, loopCount, width, height, loops, frameIndex, running,
           lastTime, delayCompensation, disposeFrame, surface, buffers, now,
           timeouts, animationFrames, hung, drawCount, buildCount,
           skipCount, calls, resetMark, lastDraw, failures, timeline >>

----------------------------------------------------------------------------
(* Bounds of the model.                                                    *)

MaxTime == 40        \* the clock stops advancing here
ClockStep == 10      \* granularity of the host clock in the model
MaxDraws == 5        \* no render-tick draws once this many draws happened
MaxCalls == 3        \* the caller makes at most this many calls
MaxLoopCount == 1    \* largest finite loop count tried

\* this._loops += 1 is a double: it stops growing at 2^53.  The model keeps
\* the saturation and scales the width down, above every loop count tried.
LoopsLimit == MaxLoopCount + 2

\* A field the constructor leaves unset.
Undefined == -1

----------------------------------------------------------------------------
(* The inputs: what the reader of the omggif library reports about a GIF  *)
(* file, and the decoding of its frames.                                   *)

\* reader.frameInfo(i): the frame's rectangle, delay and disposal
FrameInfo(x, y, w, h, delay, disposal) ==
  [x |-> x, y |-> y, width |-> w, height |-> h,
   delay |-> delay, disposal |-> disposal]

\* 0 is the GIF that loops forever
LoopCounts == {0, MaxLoopCount}

\* The GIF files tried, as << width, height, frame infos >>: one frame; three
\* frames side by side, two of them smaller than the GIF; two frames of
\* delay 0, one above the other.
GifFiles ==
  { << 1, 1, << FrameInfo(0, 0, 1, 1, 1, 0) >> >>,
    << 2, 1, << FrameInfo(0, 0, 2, 1, 1, 2), FrameInfo(1, 0, 1, 1, 1, 3),
                FrameInfo(0, 0, 1, 1, 2, 1) >> >>,
    << 1, 2, << FrameInfo(0, 0, 1, 1, 0, 3), FrameInfo(0, 1, 1, 1, 0, 0) >> >> }

GifReader(g, k) ==
  [width |-> g[1], height |-> g[2], loopCount |-> k, frameInfo |-> g[3]]

Readers == { GifReader(g, k) : g \in GifFiles, k \in LoopCounts }

\* The pixel at column px, row py is inside the rectangle of f.
Inside(px, py, f) ==
  /\ px \in f.x .. f.x + f.width - 1
  /\ py \in f.y .. f.y + f.height - 1

\* reader.decodeAndBlitFrameRGBA(index, pixels) writes the samples of
\* the frame's own pixels at their place in the whole image, four samples
\* for a pixel; the model writes index + 1 for the frame's colour.
Blit(reader, index, length) ==
  LET info == reader.frameInfo[index + 1]
  IN  [s \in 1 .. length |->
         LET p == (s - 1) \div 4
         IN  IF Inside(p % reader.width, p \div reader.width, info)
               THEN index + 1
               ELSE 0]

\* Allocates the samples of the frame's own rectangle only.
decodeFrame_FrameExtent(reader, index) ==
  LET frameInfo == reader.frameInfo[index + 1]
  IN  [x |-> frameInfo.x, y |-> frameInfo.y,
       width |-> frameInfo.width, height |-> frameInfo.height,
       delay |-> frameInfo.delay, disposal |-> frameInfo.disposal,
       pixels |-> Blit(reader, index,
                       frameInfo.width * frameInfo.height * 4)]

decodeFrame(reader, index) ==
  LET frameInfo == reader.frameInfo[index + 1]
  IN  [x |-> frameInfo.x, y |-> frameInfo.y,
       width |-> frameInfo.width, height |-> frameInfo.height,
       delay |-> frameInfo.delay, disposal |-> frameInfo.disposal,
       pixels |-> Blit(reader, index, reader.width * reader.height * 4)]

decodeFramesSync(reader) ==
  [i \in 1 .. Len(reader.frameInfo) |-> decodeFrame(reader, i - 1)]

N == Len(frames)     \* this._frames.length

\* The pixels of the canvas, as << column, row >>.
Cells == (0 .. width - 1) \X (0 .. height - 1)

Blank == [c \in Cells |-> 0]

\* new Animator(reader, frames), with the frames decoded from the reader.
InitFrom(readers) ==
  /\ \E reader \in readers :
       /\ frames = decodeFramesSync(reader)
       /\ loopCount = reader.loopCount
       /\ width = reader.width
       /\ height = reader.height
  /\ loops = 0
  /\ frameIndex = 0
  /\ running = FALSE
  /\ lastTime = Undefined
  /\ delayCompensation = Undefined
  /\ disposeFrame = [kind |-> "none", saved |-> Blank]
  /\ surface = Blank
  /\ buffers = {}
  /\ now = 0
  /\ timeouts = EmptyBag
  /\ animationFrames = EmptyBag
  /\ hung = FALSE
  /\ drawCount = 0
  /\ buildCount = 0
  /\ skipCount = 0
  /\ calls = [start |-> 0, stop |-> 0, reset |-> 0]
  /\ resetMark = FALSE
  /\ lastDraw = [idx |-> Undefined, at |-> 0]
  /\ failures = 0
  /\ timeline = Undefined

Init == InitFrom(Readers)

----------------------------------------------------------------------------
(* The host's queues.  A pending tick is first a setTimeout callback       *)
(* (_nextFrame) and then a requestAnimationFrame callback                  *)
(* (_nextFrameRender).  The stale flag is history: the tick was already    *)
(* scheduled when stop() was called.                                       *)

Pending == BagCardinality(timeouts) + BagCardinality(animationFrames)

\* The calls the caller made so far, stop() from inside onDrawFrame included.
CallsMade == calls.start + calls.stop + calls.reset

One(x) == SetToBag({x})

StaleBag(b) ==
  LET S == { [x EXCEPT !.stale = TRUE] : x \in BagToSet(b) }
  IN  [e \in S |-> CopiesIn(e, b) + CopiesIn([e EXCEPT !.stale = FALSE], b)]

\* setTimeout(() => this._nextFrame(), delay)
SetTimeout(q, delay) == q (+) One([due |-> now + delay, stale |-> FALSE])

----------------------------------------------------------------------------
(* The caller's operations.                                                *)

start ==
  /\ ~hung
  /\ CallsMade < MaxCalls
  /\ lastTime' = now
  /\ delayCompensation' = 0
  /\ running' = TRUE
  /\ timeline' = now
  /\ timeouts' = SetTimeout(timeouts, 0)
  /\ calls' = [calls EXCEPT !.start = @ + 1]
  /\ resetMark' = resetMark
  /\ UNCHANGED << frames, loopCount, width, height, loops, frameIndex,
                  disposeFrame, surface, buffers, now, animationFrames,
                  hung, drawCount, buildCount, skipCount, failures,
                  lastDraw >>

stop ==
  /\ ~hung
  /\ CallsMade < MaxCalls
  /\ running' = FALSE
  /\ timeouts' = StaleBag(timeouts)
  /\ animationFrames' = StaleBag(animationFrames)
  /\ calls' = [calls EXCEPT !.stop = @ + 1]
  /\ UNCHANGED << frames, loopCount, width, height, loops, frameIndex,
                  lastTime, timeline, delayCompensation, disposeFrame,
                  surface, buffers, now, hung, drawCount, buildCount,
                  skipCount, failures, resetMark, lastDraw >>

\* Rewinds and restarts the timing, as start() does.
reset_RestartsTiming ==
  /\ ~hung
  /\ CallsMade < MaxCalls
  /\ frameIndex' = 0
  /\ loops' = 0
  /\ lastTime' = now
  /\ delayCompensation' = 0
  /\ timeline' = timeline
  /\ calls' = [calls EXCEPT !.reset = @ + 1]
  /\ resetMark' = running
  /\ UNCHANGED << frames, loopCount, width, height, running, disposeFrame,
                  surface, buffers, now, timeouts, animationFrames, hung,
                  drawCount, buildCount, skipCount, failures, lastDraw >>

\* Rewinds the loop counter and forgets the frame index.
reset_KeepsFrameIndex ==
  /\ ~hung
  /\ CallsMade < MaxCalls
  /\ loops' = 0
  /\ calls' = [calls EXCEPT !.reset = @ + 1]
  /\ resetMark' = running
  /\ UNCHANGED << frames, loopCount, width, height, frameIndex, running,
                  lastTime, timeline, delayCompensation, disposeFrame,
                  surface, buffers, now, timeouts, animationFrames, hung,
                  drawCount, buildCount, skipCount, failures, lastDraw >>

reset ==
  /\ ~hung
  /\ CallsMade < MaxCalls
  /\ frameIndex' = 0
  /\ loops' = 0
  /\ calls' = [calls EXCEPT !.reset = @ + 1]
  /\ resetMark' = running
  /\ UNCHANGED << frames, loopCount, width, height, running, lastTime,
                  timeline, delayCompensation, disposeFrame, surface,
                  buffers, now, timeouts, animationFrames, hung,
                  drawCount, buildCount, skipCount, failures, lastDraw >>

----------------------------------------------------------------------------
(* The host.                                                               *)

\* Time passes between callbacks.
ClockAdvance ==
  /\ ~hung
  /\ now + ClockStep <= MaxTime
  /\ now' = now + ClockStep
  /\ UNCHANGED << frames, loopCount, width, height, loops, frameIndex,
                  running, lastTime, timeline, delayCompensation,
                  disposeFrame, surface, buffers, timeouts,
                  animationFrames, hung, drawCount, buildCount,
                  skipCount, failures, calls, resetMark, lastDraw >>

\* The earliest time a pending timeout is due.
NextDue ==
  CHOOSE d \in { t.due : t \in BagToSet(timeouts) } :
    \A t \in BagToSet(timeouts) : d <= t.due

\* The simulated clock of exact timing: when no callback is ready to run,
\* time passes until the earliest timeout is due, and no longer.
ClockExact ==
  /\ ~hung
  /\ timeouts # EmptyBag
  /\ animationFrames = EmptyBag
  /\ NextDue > now
  /\ now' = NextDue
  /\ UNCHANGED << frames, loopCount, width, height, loops, frameIndex,
                  running, lastTime, timeline, delayCompensation,
                  disposeFrame, surface, buffers, timeouts,
                  animationFrames, hung, drawCount, buildCount,
                  skipCount, failures, calls, resetMark, lastDraw >>

\* Time that never stops while a timeout waits for it: it passes freely up
\* to MaxTime, and beyond as long as a pending timeout is not yet due.
ClockLive ==
  /\ ~hung
  /\ \/ now + ClockStep <= MaxTime
     \/ \E t \in BagToSet(timeouts) : t.due > now
  /\ now' = now + ClockStep
  /\ UNCHANGED << frames, loopCount, width, height, loops, frameIndex,
                  running, lastTime, timeline, delayCompensation,
                  disposeFrame, surface, buffers, timeouts,
                  animationFrames, hung, drawCount, buildCount,
                  skipCount, failures, calls, resetMark, lastDraw >>

\* A timeout fires, no earlier than asked: _nextFrame requests an animation
\* frame, whatever the running flag says.
nextFrame(t) ==
  /\ ~hung
  /\ t.due <= now
  /\ timeouts' = timeouts (-) One(t)
  /\ animationFrames' = animationFrames (+) One([stale |-> t.stale])
  /\ UNCHANGED << frames, loopCount, width, height, loops, frameIndex,
                  running, lastTime, timeline, delayCompensation,
                  disposeFrame, surface, buffers, now, hung, drawCount,
                  buildCount, skipCount, failures, calls, resetMark,
                  lastDraw >>

----------------------------------------------------------------------------
(* The advance-and-delay procedure, on a record e of the fields it reads   *)
(* and writes: frameIndex, loops, running, lastTime, delayCompensation,    *)
(* plus what the caller wants to know: skipped, sched (the delay of the    *)
(* timeout it set, or Undefined) and hung.                                 *)

\* this._loops += 1
Increment(n) == IF n < LoopsLimit THEN n + 1 ELSE n

\* Stops one pass early.
advanceFrame_OnePassShort(e) ==
  LET next == e.frameIndex + 1
  IN  IF next >= N
        THEN IF loopCount # 0 /\ loopCount = e.loops + 1
               THEN [e EXCEPT !.frameIndex = next, !.running = FALSE]
               ELSE [e EXCEPT !.frameIndex = 0, !.loops = Increment(e.loops)]
        ELSE [e EXCEPT !.frameIndex = next]

\* Takes the loop count 0 for a count that loops == 0 exhausts.
advanceFrame_StopsInfinite(e) ==
  LET next == e.frameIndex + 1
  IN  IF next >= N
        THEN IF loopCount = e.loops
               THEN [e EXCEPT !.frameIndex = next, !.running = FALSE]
               ELSE [e EXCEPT !.frameIndex = 0, !.loops = Increment(e.loops)]
        ELSE [e EXCEPT !.frameIndex = next]

\* Wraps around whatever the loop count.
advanceFrame_AlwaysWraps(e) ==
  LET next == e.frameIndex + 1
  IN  IF next >= N
        THEN [e EXCEPT !.frameIndex = 0, !.loops = Increment(e.loops)]
        ELSE [e EXCEPT !.frameIndex = next]

advanceFrame(e) ==
  LET next == e.frameIndex + 1
  IN  IF next >= N
        THEN IF loopCount # 0 /\ loopCount = e.loops
               THEN [e EXCEPT !.frameIndex = next, !.running = FALSE]
               ELSE [e EXCEPT !.frameIndex = 0, !.loops = Increment(e.loops)]
        ELSE [e EXCEPT !.frameIndex = next]

\* What the loop's next iteration depends on.
LoopState(e) == << e.frameIndex, e.loops, e.lastTime, e.delayCompensation >>

\* Skips a frame that is due exactly now, too.
RECURSIVE enqueueLoop_SkipsDueFrame(_, _)
enqueueLoop_SkipsDueFrame(e, seen) ==
  IF ~e.running THEN e
  ELSE IF LoopState(e) \in seen THEN [e EXCEPT !.hung = TRUE]
  ELSE
    LET frame == frames[e.frameIndex + 1]
        delta == now - e.lastTime
        lastTime1 == e.lastTime + delta
        compensation1 == e.delayCompensation + delta
        frameDelay == frame.delay * 10
        actualDelay == frameDelay - compensation1
        compensation2 == compensation1 - frameDelay
        e1 == [e EXCEPT !.lastTime = lastTime1,
                        !.delayCompensation = compensation2]
    IN  IF actualDelay <= 0
          THEN LET skip ==
                     { << advanceFrame([e1 EXCEPT !.skipped = @ + 1]),
                          seen \cup {LoopState(e)} >> }
               IN  CHOOSE r \in { enqueueLoop_SkipsDueFrame(x[1], x[2]) :
                                    x \in skip } : TRUE
          ELSE [e1 EXCEPT !.sched = actualDelay]

\* Sets the timeout for the frame it is at, overdue or not.
enqueueLoop_NeverSkips(e, seen) ==
  IF ~e.running THEN e
  ELSE
    LET frame == frames[e.frameIndex + 1]
        delta == now - e.lastTime
        lastTime1 == e.lastTime + delta
        compensation1 == e.delayCompensation + delta
        frameDelay == frame.delay * 10
        actualDelay == frameDelay - compensation1
        compensation2 == compensation1 - frameDelay
    IN  [e EXCEPT !.lastTime = lastTime1,
                  !.delayCompensation = compensation2,
                  !.sched = actualDelay]

\* Forgets how late it is when it skips a frame.
RECURSIVE enqueueLoop_SkipForgetsLateness(_, _)
enqueueLoop_SkipForgetsLateness(e, seen) ==
  IF ~e.running THEN e
  ELSE IF LoopState(e) \in seen THEN [e EXCEPT !.hung = TRUE]
  ELSE
    LET frame == frames[e.frameIndex + 1]
        delta == now - e.lastTime
        lastTime1 == e.lastTime + delta
        compensation1 == e.delayCompensation + delta
        frameDelay == frame.delay * 10
        actualDelay == frameDelay - compensation1
        compensation2 == compensation1 - frameDelay
        e1 == [e EXCEPT !.lastTime = lastTime1,
                        !.delayCompensation = compensation2]
    IN  IF actualDelay < 0
          THEN LET skip ==
                     { << advanceFrame([e1 EXCEPT !.skipped = @ + 1,
                                   !.delayCompensation = 0]),
                          seen \cup {LoopState(e)} >> }
               IN  CHOOSE r \in { enqueueLoop_SkipForgetsLateness(x[1], x[2]) :
                                    x \in skip } : TRUE
          ELSE [e1 EXCEPT !.sched = actualDelay]

\* Does not take the delay it waits for off the compensation.
RECURSIVE enqueueLoop_KeepsDelay(_, _)
enqueueLoop_KeepsDelay(e, seen) ==
  IF ~e.running THEN e
  ELSE IF LoopState(e) \in seen THEN [e EXCEPT !.hung = TRUE]
  ELSE
    LET frame == frames[e.frameIndex + 1]
        delta == now - e.lastTime
        lastTime1 == e.lastTime + delta
        compensation1 == e.delayCompensation + delta
        frameDelay == frame.delay * 10
        actualDelay == frameDelay - compensation1
        e1 == [e EXCEPT !.lastTime = lastTime1,
                        !.delayCompensation = compensation1]
    IN  IF actualDelay < 0
          THEN LET skip ==
                     { << advanceFrame([e1 EXCEPT !.skipped = @ + 1]),
                          seen \cup {LoopState(e)} >> }
               IN  CHOOSE r \in { enqueueLoop_KeepsDelay(x[1], x[2]) :
                                    x \in skip } : TRUE
          ELSE [e1 EXCEPT !.sched = actualDelay]

\* The while loop.  The clock does not advance while it runs.  An iteration
\* that starts in a state an earlier iteration started in repeats forever.
\* The state a skip iteration ends in is computed once, as the element of a
\* singleton, and the loop goes on from it.
RECURSIVE enqueueLoop(_, _)
enqueueLoop(e, seen) ==
  IF ~e.running THEN e
  ELSE IF LoopState(e) \in seen THEN [e EXCEPT !.hung = TRUE]
  ELSE
    LET frame == frames[e.frameIndex + 1]
        delta == now - e.lastTime
        lastTime1 == e.lastTime + delta
        compensation1 == e.delayCompensation + delta
        frameDelay == frame.delay * 10
        actualDelay == frameDelay - compensation1
        compensation2 == compensation1 - frameDelay
        e1 == [e EXCEPT !.lastTime = lastTime1,
                        !.delayCompensation = compensation2]
    IN  IF actualDelay < 0
          THEN LET skip ==
                     { << advanceFrame([e1 EXCEPT !.skipped = @ + 1]),
                          seen \cup {LoopState(e)} >> }
               IN  CHOOSE r \in { enqueueLoop(x[1], x[2]) :
                                    x \in skip } : TRUE
          ELSE [e1 EXCEPT !.sched = actualDelay]

enqueueNextFrame(e) == enqueueLoop(advanceFrame(e), {})

----------------------------------------------------------------------------
(* onFrame and onDrawFrame, on the canvas.                                 *)

\* this.disposeFrame()
ApplyDispose(d, surf) ==
  CASE d.kind = "clear" -> Blank
    [] d.kind = "restore" -> d.saved
    [] OTHER -> surf

\* The pixels of the canvas the frame's rectangle covers.
Rect(frame) == { c \in Cells : Inside(c[1], c[2], frame) }

\* The buffer canvas of a frame, frame.width by frame.height: the image data
\* of the whole GIF, w by h, filled from frame.pixels and put at
\* (-frame.x, -frame.y), so that the frame's rectangle lands at the origin.
\* A pixel nothing is put on stays transparent, 0.
createBufferCanvas(frame, w, h) ==
  LET data == [s \in 1 .. w * h * 4 |->
                 IF s <= Len(frame.pixels) THEN frame.pixels[s] ELSE 0]
  IN  [b \in (0 .. frame.width - 1) \X (0 .. frame.height - 1) |->
         LET px == b[1] + frame.x
             py == b[2] + frame.y
         IN  IF px < w /\ py < h THEN data[(py * w + px) * 4 + 1] ELSE 0]

\* The default onDrawFrame: ctx.drawImage(frame.buffer, frame.x, frame.y),
\* with frame.buffer as onFrame has just built it.  A transparent pixel of
\* the buffer leaves the canvas as it is.
DrawImage(frame, i, surf) ==
  LET buffer == createBufferCanvas(frame, width, height)
  IN  [c \in Cells |->
         LET b == << c[1] - frame.x, c[2] - frame.y >>
         IN  IF b \in DOMAIN buffer /\ buffer[b] # 0 THEN buffer[b]
                                                      ELSE surf[c]]

\* Takes the snapshot of restoreToPrevious after the draw.
onFrame_SnapshotAfterDraw(frame, i, d, surf) ==
  LET applied == ApplyDispose(d, surf)
      drawn == DrawImage(frame, i, applied)
      next == CASE frame.disposal = 2 -> [kind |-> "clear", saved |-> Blank]
                [] frame.disposal = 3 -> [kind |-> "restore", saved |-> drawn]
                [] OTHER -> [kind |-> "none", saved |-> Blank]
  IN  [applied |-> applied, dispose |-> next, drawn |-> drawn]

\* onFrame up to the call of onDrawFrame, then the draw: the surface the
\* frame is drawn on, the new pending restore, the surface after the draw.
onFrame(frame, i, d, surf) ==
  LET applied == ApplyDispose(d, surf)
      next == CASE frame.disposal = 2 -> [kind |-> "clear", saved |-> Blank]
                [] frame.disposal = 3 -> [kind |-> "restore", saved |-> applied]
                [] OTHER -> [kind |-> "none", saved |-> Blank]
  IN  [applied |-> applied, dispose |-> next,
       drawn |-> DrawImage(frame, i, applied)]

\* What the caller's onDrawFrame does besides drawing.
HookActs == {"none", "stop", "throw"}

----------------------------------------------------------------------------
(* The render-tick.                                                        *)

\* 10 ms times the delays of the m frames after frame j, cyclically.
RECURSIVE SumDelays(_, _)
SumDelays(j, m) ==
  IF m = 0 THEN 0
  ELSE SumDelays(j, m - 1) + 10 * frames[((j + m) % N) + 1].delay

\* The tick fires while stopped: it returns at once.
RenderNoOp ==
  UNCHANGED << frames, loopCount, width, height, loops, frameIndex, running,
               lastTime, timeline, delayCompensation, disposeFrame, surface,
               buffers, now, timeouts, hung, drawCount, buildCount,
               skipCount, failures, calls, resetMark, lastDraw >>

\* this._frames[this._frameIndex] is undefined: createBufferCanvas is called
\* with it, throws on reading frame.width, and the tick ends there.
RenderUndefined ==
  /\ resetMark' = FALSE
  /\ UNCHANGED << frames, loopCount, width, height, loops, frameIndex,
                  running, lastTime, timeline, delayCompensation,
                  disposeFrame, surface, buffers, now, timeouts, hung,
                  drawCount, buildCount, skipCount, failures, calls,
                  lastDraw >>

RenderFrame(hook) ==
  LET frame == frames[frameIndex + 1]
      f == onFrame(frame, frameIndex, disposeFrame, surface)
      e0 == [frameIndex |-> frameIndex, loops |-> loops,
             running |-> running /\ hook # "stop", lastTime |-> lastTime,
             delayCompensation |-> delayCompensation, skipped |-> 0,
             sched |-> Undefined, hung |-> FALSE]
      e == IF hook = "throw" THEN e0 ELSE enqueueNextFrame(e0)
      left == IF e.running THEN timeouts ELSE StaleBag(timeouts)
      \* the iterations of the while loop: one for each frame skipped and
      \* one for the frame the timeout is set for
      iterations == IF e.sched # Undefined THEN e.skipped + 1 ELSE e.skipped
  IN  /\ hook = "stop" => CallsMade < MaxCalls
      /\ buffers' = buffers \cup {frameIndex + 1}
      /\ buildCount' = buildCount + 1
      /\ disposeFrame' = f.dispose
      /\ surface' = IF hook = "throw" THEN f.applied ELSE f.drawn
      /\ drawCount' = drawCount + 1
      /\ frameIndex' = e.frameIndex
      /\ loops' = e.loops
      /\ running' = e.running
      /\ lastTime' = e.lastTime
      /\ delayCompensation' = e.delayCompensation
      /\ hung' = e.hung
      /\ skipCount' = skipCount + e.skipped
      /\ timeouts' = IF e.sched # Undefined THEN SetTimeout(left, e.sched)
                                            ELSE left
      /\ calls' = [calls EXCEPT !.stop = IF hook = "stop" THEN @ + 1 ELSE @]
      /\ resetMark' = FALSE
      /\ lastDraw' = [idx |-> frameIndex, at |-> now]
      /\ failures' = IF hook = "throw" THEN failures + 1 ELSE failures
      /\ timeline' = IF e.hung THEN timeline
                               ELSE timeline + SumDelays(frameIndex, iterations)
      /\ UNCHANGED << frames, loopCount, width, height, now >>

\* Draws without looking at the running flag.
nextFrameRender_NoRunningCheck(t) ==
  /\ ~hung
  /\ LET rest == animationFrames (-) One(t)
     IN  IF frameIndex >= N
           THEN RenderUndefined /\ animationFrames' = rest
           ELSE \E hook \in HookActs :
                  /\ drawCount < MaxDraws
                  /\ RenderFrame(hook)
                  /\ animationFrames' =
                       IF running' THEN rest ELSE StaleBag(rest)

\* An animation frame callback runs: the render-tick, with the draw hooks
\* the caller may have installed and the number of draws looked at.
nextFrameRenderWith(t, hooks, limit) ==
  /\ ~hung
  /\ LET rest == animationFrames (-) One(t)
     IN  IF ~running
           THEN RenderNoOp /\ animationFrames' = rest
           ELSE IF frameIndex >= N
             THEN RenderUndefined /\ animationFrames' = rest
             ELSE \E hook \in hooks :
                    /\ drawCount < limit
                    /\ RenderFrame(hook)
                    /\ animationFrames' =
                         IF running' THEN rest ELSE StaleBag(rest)

nextFrameRender(t) == nextFrameRenderWith(t, HookActs, MaxDraws)

----------------------------------------------------------------------------

Next ==
  \/ start
  \/ stop
  \/ reset
  \/ ClockAdvance
  \/ \E t \in BagToSet(timeouts) : nextFrame(t)
  \/ \E t \in BagToSet(animationFrames) : nextFrameRender(t)

Spec == Init /\ [][Next]_vars

----------------------------------------------------------------------------
(* Playback of a GIF of finite loop count.                                 *)

FiniteReaders == { r \in Readers : r.loopCount > 0 }

\* The draws looked at: one more than the (loopCount + 1) passes take.
PlaybackDraws == (loopCount + 1) * N + 1

(* Exact timing: every tick fires exactly when it is due.  The files       *)
(* include three frames of delays 10, 20 and 5.                            *)

ExactFile ==
  << 2, 1, << FrameInfo(0, 0, 2, 1, 10, 1), FrameInfo(1, 0, 1, 1, 20, 1),
              FrameInfo(0, 0, 1, 1, 5, 1) >> >>

ExactInit ==
  InitFrom(FiniteReaders \cup { GifReader(ExactFile, MaxLoopCount) })

ExactNext ==
  \/ start
  \/ stop
  \/ reset
  \/ ClockExact
  \/ \E t \in BagToSet(timeouts) : nextFrame(t)
  \/ \E t \in BagToSet(animationFrames) :
       nextFrameRenderWith(t, HookActs, PlaybackDraws)

ExactSpec == ExactInit /\ [][ExactNext]_vars

(* Playback left alone: the caller calls start() once, may call stop(),    *)
(* never reset(); no draw hook throws; time passes and the host runs every *)
(* callback it was asked to run.                                           *)

LiveInit == InitFrom(FiniteReaders)

startOnce == calls.start = 0 /\ start

TimeoutFires == \E t \in BagToSet(timeouts) : nextFrame(t)

FrameFires ==
  \E t \in BagToSet(animationFrames) :
    nextFrameRenderWith(t, {"none", "stop"}, PlaybackDraws)

LiveNext ==
  \/ startOnce
  \/ stop
  \/ ClockLive
  \/ TimeoutFires
  \/ FrameFires

LiveSpec ==
  /\ LiveInit
  /\ [][LiveNext]_vars
  /\ WF_vars(ClockLive)
  /\ WF_vars(TimeoutFires)
  /\ WF_vars(FrameFires)

----------------------------------------------------------------------------
(* Steps, told apart by what they change.                                  *)

StartStep == calls'.start = calls.start + 1
StopStep == calls'.stop = calls.stop + 1
ResetStep == calls'.reset = calls.reset + 1
DrawStep == drawCount' = drawCount + 1
ThrowStep == failures' = failures + 1

\* The caller has called start() once and nothing else.
Solo == calls = [start |-> 1, stop |-> 0, reset |-> 0]

----------------------------------------------------------------------------
(* C1.  As claimed: a fresh engine with N frames and loop count k > 0,     *)
(* started once and left alone, has drawn exactly (k+1)*N times when       *)
(* running becomes false, however late its ticks fire.                     *)

C1_Original ==
  (Solo /\ loopCount > 0 /\ ~running) => drawCount = (loopCount + 1) * N

(* C1, amended: when running becomes false the draws and the frames        *)
(* skipped by the advance-and-delay procedure sum to (k+1)*N, so the draw  *)
(* hook ran at most (k+1)*N times, and exactly that often when no frame    *)
(* was skipped; and running stays false until start() is called.           *)

C1_DrawsPlusSkips ==
  /\ []((Solo /\ loopCount > 0 /\ ~running)
          => drawCount + skipCount = (loopCount + 1) * N)
  /\ [][(~running /\ ~StartStep) => ~running']_vars

C1_Witness ==
  Solo /\ loopCount > 0 /\ ~running /\ skipCount > 0 /\ drawCount > 1

----------------------------------------------------------------------------
(* C2.  start() while running changes no playback state and schedules no   *)
(* additional tick.                                                        *)

C2_StartIdempotent ==
  [][(StartStep /\ running)
       => /\ lastTime' = lastTime
          /\ delayCompensation' = delayCompensation
          /\ running' = running
          /\ timeouts' = timeouts
          /\ animationFrames' = animationFrames]_vars

(* C3.  At most one render-tick is pending, counting the pending timeouts  *)
(* and the pending animation-frame callbacks of the engine.                *)

C3_SinglePendingTick == Pending <= 1

(* C4.  Once stop() has been called and until start() is called again, no  *)
(* tick invokes the draw hook, and no tick is scheduled: a step that       *)
(* leaves the engine stopped adds no pending tick (a timeout that fires    *)
(* becomes the animation-frame callback of the same tick).                 *)

C4_StopHaltsDrawing ==
  [][/\ ~running => (running' \/ drawCount' = drawCount)
     /\ ~running' => Pending' <= Pending]_vars

C4_Witness ==
  /\ ~running
  /\ drawCount > 0
  /\ \E t \in BagToSet(animationFrames) : t.stale

(* C5.  A tick that was already scheduled when stop() was called draws     *)
(* nothing and schedules nothing when it fires, also when start() was      *)
(* called again before it fires.  Stated for the steps in which the tick   *)
(* that fires is certainly such a tick: every pending animation-frame      *)
(* callback is one.                                                        *)

C5_StaleTickIsNoOp ==
  [][(/\ animationFrames # EmptyBag
      /\ \A t \in BagToSet(animationFrames) : t.stale
      /\ BagCardinality(animationFrames') < BagCardinality(animationFrames))
       => (drawCount' = drawCount /\ timeouts' = timeouts)]_vars

----------------------------------------------------------------------------
(* C6.  As claimed: when the clock between two ticks jumps forward by more *)
(* than the delays of the next m frames after the frame i drawn before the *)
(* jump (and by no more than the delays of the next m+1), those m frames   *)
(* are not drawn and the next frame drawn is (i + m + 1) mod N.  Stated    *)
(* for playback the caller leaves alone after one start().                 *)

C6_Original ==
  [][(DrawStep /\ Solo /\ lastDraw.idx # Undefined /\ Pending' = Pending)
       => LET i == lastDraw.idx
              jump == now - lastDraw.at
          IN  \A m \in 0 .. N :
                (jump > SumDelays(i, m) /\ jump <= SumDelays(i, m + 1))
                  => frameIndex = (i + m + 1) % N]_vars

(* C6, amended: a tick that fires late still draws the frame j it was      *)
(* scheduled for; then, with late = now - lastTickTime + delayCompensation *)
(* as the engine measures it at the tick, the advance-and-delay procedure  *)
(* advances past exactly the m frames after j for which late exceeds 10 ms *)
(* times the sum of their delays, draws none of them, and leaves           *)
(* (j + m + 1) mod N as the next frame to draw -- when the procedure       *)
(* schedules the next tick, that is, when the loop count is not exhausted  *)
(* on the way.                                                             *)

C6_SkipsOverdueFrames ==
  [][(DrawStep /\ running' /\ ~hung' /\ Pending' = Pending)
       => LET j == frameIndex
              late == now - lastTime + delayCompensation
              m == skipCount' - skipCount
          IN  /\ lastDraw'.idx = j
              /\ m > 0 => late > SumDelays(j, m)
              /\ late <= SumDelays(j, m + 1)
              /\ frameIndex' = (j + m + 1) % N]_vars

C6_Witness ==
  /\ Solo /\ running /\ Pending = 1
  /\ N = 3 /\ drawCount = 2 /\ skipCount = 1
  /\ lastDraw.idx = 1 /\ frameIndex = 0

----------------------------------------------------------------------------
(* C7.  In every render-tick the pending restore is applied before the     *)
(* frame is drawn, and is replaced according to the frame's disposal:      *)
(* 2 clears the canvas, 3 restores a snapshot, anything else restores      *)
(* nothing; the snapshot is the surface immediately before the draw.       *)

C7_DisposalOrdering ==
  [][DrawStep
       => LET frame == frames[frameIndex + 1]
              before == CASE disposeFrame.kind = "clear" -> Blank
                          [] disposeFrame.kind = "restore" -> disposeFrame.saved
                          [] OTHER -> surface
          IN  /\ \A c \in Cells \ Rect(frame) : surface'[c] = before[c]
              /\ \A c \in Rect(frame) :
                   surface'[c] \in {frameIndex + 1, before[c]}
              /\ disposeFrame'.kind =
                   CASE frame.disposal = 2 -> "clear"
                     [] frame.disposal = 3 -> "restore"
                     [] OTHER -> "none"
              /\ frame.disposal = 3 => disposeFrame'.saved = before]_vars

C7_Witness ==
  /\ disposeFrame.kind = "restore"
  /\ disposeFrame.saved # surface
  /\ drawCount >= 2

----------------------------------------------------------------------------
(* C8.  The renderable handle of each frame is built at most once: the     *)
(* buffers built are as many as the frames that have one.                  *)

C8_BufferBuiltOnce == buildCount <= Cardinality(buffers)

----------------------------------------------------------------------------
(* C9.  reset() sets frameIndex and loops to 0 and changes nothing else:   *)
(* not running, the timing accumulators, the pending restore, the canvas   *)
(* or the pending ticks.                                                   *)

C9_ResetRewindsOnly ==
  [][ResetStep
       => /\ frameIndex' = 0
          /\ loops' = 0
          /\ UNCHANGED << running, lastTime, delayCompensation, disposeFrame,
                          surface, buffers, timeouts,
                          animationFrames >>]_vars

C9_Witness ==
  /\ resetMark /\ running /\ Pending = 1
  /\ N = 3 /\ skipCount = 0 /\ lastDraw.idx = 1
  /\ frameIndex = 0 /\ loops = 0

----------------------------------------------------------------------------
(* C10.  After reset() while running, between render-ticks, the very next  *)
(* render-tick that draws hands frame 0 to the draw hook.                  *)

C10_ResetThenFirstFrame ==
  [][(resetMark /\ DrawStep) => lastDraw'.idx = 0]_vars

C10_Witness ==
  /\ calls = [start |-> 1, stop |-> 0, reset |-> 1]
  /\ ~resetMark
  /\ N = 3 /\ skipCount = 0 /\ drawCount = 3 /\ lastDraw.idx = 0

----------------------------------------------------------------------------
(* C11.  With loopCount = 0 the engine never stops on its own: running     *)
(* changes from true to false only in a step that is a stop() call of the  *)
(* caller (from outside or from inside the draw hook), never because the   *)
(* advance step stopped it.                                                *)

C11_InfiniteNeverStops ==
  [][(loopCount = 0 /\ running /\ ~running') => StopStep]_vars

C11_Witness ==
  /\ loopCount = 0 /\ running /\ calls.stop = 0
  /\ loops >= 2 /\ drawCount >= 3

----------------------------------------------------------------------------
(* C12.  After start() on a GIF of loop count k > 0, with no further       *)
(* start() or reset(), no failing draw hook and a host that fires every    *)
(* tick it was asked for, running eventually becomes false and from then   *)
(* on no tick is pending.                                                  *)

C12_FiniteLoopsStop ==
  (calls.start = 1) ~> [](~running /\ Pending = 0)

\* stopped by itself, after late ticks and skipped frames
C12_Witness ==
  /\ Solo /\ ~running /\ Pending = 0
  /\ skipCount > 0 /\ drawCount >= 2
  /\ drawCount + skipCount = (loopCount + 1) * N

----------------------------------------------------------------------------
(* C13.  When every tick fires exactly when it is due, playback of N       *)
(* frames with loop count k > 0 that the caller leaves alone after one     *)
(* start() skips no frame and draws the frames 0, 1, ..., N-1 in order,    *)
(* k + 1 times over: the draw after d draws is of frame d mod N, and the   *)
(* engine has stopped exactly when (k+1)*N draws are made.                 *)

C13_ExactTimingOrder ==
  /\ [][(Solo /\ loopCount > 0 /\ DrawStep)
          => /\ frameIndex = drawCount % N
             /\ lastDraw'.idx = frameIndex
             /\ skipCount' = 0
             /\ drawCount' <= (loopCount + 1) * N
             /\ (drawCount' = (loopCount + 1) * N /\ ~ThrowStep)
                  => ~running']_vars
  /\ []((Solo /\ loopCount > 0 /\ ~running)
          => (drawCount = (loopCount + 1) * N /\ skipCount = 0))

\* the three frames of delays 10, 20 and 5 were played through and stopped
C13_Witness ==
  /\ Solo /\ ~running /\ Pending = 0 /\ failures = 0
  /\ N = 3 /\ frames[1].delay = 10
  /\ drawCount = (loopCount + 1) * N /\ skipCount = 0
  /\ lastDraw.idx = N - 1
  /\ now = SumDelays(0, (loopCount + 1) * N - 1)

----------------------------------------------------------------------------
(* C14.  A render-tick whose draw hook throws performs no advance and      *)
(* schedules no tick: running stays true, frameIndex and loops keep their  *)
(* values, no timeout is added; and no later tick occurs unless start() is *)
(* called again: no tick is pending after the failing tick.                *)

C14_DrawFailureAbortsTick ==
  [][ThrowStep
       => /\ running'
          /\ frameIndex' = frameIndex
          /\ loops' = loops
          /\ timeouts' = timeouts
          /\ Pending' = 0]_vars

----------------------------------------------------------------------------
(* C15.  As claimed: the pixel buffer of every decoded frame has length    *)
(* frame.width * frame.height * 4, the frame's own extent, also when the   *)
(* frame is smaller than the GIF.                                          *)

C15_Original ==
  \A i \in 1 .. N :
    Len(frames[i].pixels) = frames[i].width * frames[i].height * 4

(* C15, amended: the pixel buffer of every decoded frame has length        *)
(* width * height * 4 with the width and height of the whole GIF, whatever *)
(* the frame's own rectangle; the frame's pixels are at their place in the *)
(* whole image, and the frame's rectangle is what the engine draws.        *)

C15_FullImageBuffer ==
  /\ \A i \in 1 .. N : Len(frames[i].pixels) = width * height * 4
  /\ \A i \in 1 .. N :
       \A c \in Cells :
         frames[i].pixels[(c[2] * width + c[1]) * 4 + 1]
           = IF c \in Rect(frames[i]) THEN i ELSE 0

\* a frame smaller than the GIF was decoded and has been drawn
C15_Witness ==
  /\ lastDraw.idx # Undefined
  /\ failures = 0
  /\ LET frame == frames[lastDraw.idx + 1]
     IN  /\ frame.width * frame.height < width * height
         /\ \A c \in Rect(frame) : surface[c] = lastDraw.idx + 1
         /\ \E c \in Cells \ Rect(frame) : surface[c] # lastDraw.idx + 1

----------------------------------------------------------------------------
(* C16.  Every invocation of the advance-and-delay procedure ends after    *)
(* finitely many skip iterations, by scheduling the next tick or because   *)
(* the engine stopped: the while loop never runs forever.                  *)

C16_EnqueueTerminates == ~hung

----------------------------------------------------------------------------
(* C17.  Whenever the advance-and-delay procedure schedules a tick,        *)
(* lastTime - delayCompensation is the time of the latest start() plus     *)
(* 10 ms times the delays of the frames advanced to since, drawn or        *)
(* skipped; and the tick is due at exactly that time, however late the     *)
(* earlier ticks fired.                                                    *)

C17_DriftFree ==
  [][(DrawStep /\ running' /\ ~hung' /\ Pending' = Pending)
       => /\ lastTime' - delayCompensation' = timeline'
          /\ \E t \in BagToSet(timeouts') :
               /\ ~t.stale
               /\ t.due = timeline'
               /\ CopiesIn(t, timeouts') > CopiesIn(t, timeouts)]_vars

\* a tick fired late, and the next one was set sooner than the frame's delay
C17_Witness ==
  /\ Solo /\ running /\ ~hung /\ Pending = 1 /\ drawCount >= 2
  /\ frameIndex < N
  /\ lastTime = now
  /\ 0 - delayCompensation < 10 * frames[frameIndex + 1].delay
  /\ \E t \in BagToSet(timeouts) : t.due = timeline /\ t.due > now

----------------------------------------------------------------------------
(* C18.  In every reachable state 0 <= frameIndex < N.                     *)

C18_FrameIndexInRange == frameIndex \in 0 .. N - 1

----------------------------------------------------------------------------
(* C19.  Every delay the engine passes to setTimeout is non-negative: a     *)
(* timeout that a step adds is due no earlier than the time of the step.   *)

C19_NonNegativeDelay ==
  [][\A t \in BagToSet(timeouts') :
       (~t.stale /\ CopiesIn(t, timeouts') > CopiesIn(t, timeouts))
         => t.due >= now']_vars

\* an overdue tick skipped a frame and set a timeout with delay 0
C19_Witness ==
  /\ Solo /\ running /\ skipCount > 0 /\ lastTime = now
  /\ \E t \in BagToSet(timeouts) : ~t.stale /\ t.due = now

----------------------------------------------------------------------------
(* C20.  Whenever a render-tick of the running engine takes the frame to   *)
(* draw, frameIndex is a valid index, 0 <= frameIndex < N; also in the      *)
(* first tick after start() on an engine that stopped by itself.           *)

C20_DrawnFrameIsValid ==
  [][(running /\ BagCardinality(animationFrames') <
                   BagCardinality(animationFrames))
       => frameIndex \in 0 .. N - 1]_vars

====
